---- MODULE Spec2Model ----
(***************************************************************************)
(* Model of the probability-driven quoting and reconciliation engine of    *)
(* crypto/main.py (MarketMakerBot).                                        *)
(*                                                                         *)
(* Units.  All quantities are exact integers:                              *)
(*   price   : ticks, 1 tick = tick_size, so 1.0 = TicksPerUnit ticks      *)
(*   p_fair, RISK_THRESHOLD : sub-ticks, 1.0 = PScale sub-ticks            *)
(*   size    : hundredths of a share (to_size rounds to 2 decimals)        *)
(*   value   : price * size, so 1 dollar = ValueScale units                *)
(* Lattice prices are exact in this representation, so math.isclose on two *)
(* lattice prices is equality.                                             *)
(***************************************************************************)
EXTENDS Integers, Sequences, FiniteSets, TLC

\* ------------------------------------------------------------------ bounds
TicksPerUnit == 10      \* 1 / tick_size of the fetched order book
MaxCycles == 3          \* number of trading cycles explored
SessionLen == 2         \* longest session, in cycles, until close_timestamp

\* --------------------------------------------------------------- constants
SubTicks == 2           \* sub-ticks per tick: resolution of p_fair
SizeScale == 100        \* to_size: round(x, 2)
TolScale == 10000       \* less_than: 1e-6 shares, in 1e-4 hundredths
PortfolioSize == 10     \* BOT_CONFIG["PORTFOLIO_SIZE"], dollars
RiskThreshold == 1      \* BOT_CONFIG["RISK_THRESHOLD"] = half a tick
MinShares == 5          \* order_book['min_order_size'], shares

PScale == SubTicks * TicksPerUnit
ValueScale == SizeScale * TicksPerUnit
MinOrderSize == MinShares * SizeScale
\* MAX_INVENTORY = PORTFOLIO_SIZE * MAX_POSITION_PERCENT (0.5)
MaxInventory == (PortfolioSize * ValueScale) \div 2

VARIABLES
    yes_shares, no_shares, longs, shorts, cash,   \* the inventory ledger
    pending_longs, pending_shorts,                \* pending notional
    pending_orders,                               \* resting orders
    old_pending_orders,                           \* the list last replaced
    logs,                                         \* fill log
    p_fair, order_book,                           \* data of the cycle
    quote,                                        \* locals of get_order_plan
    order_plan,                                   \* run()'s order_plan
    now, close_timestamp,                         \* clock and session end
    pc,                                           \* position in run()
    call,                                         \* a stand-alone function call
    cycle_start,                                  \* the state a cycle began in
    fetch                                         \* a call of fetch_market_data

vars == <<yes_shares, no_shares, longs, shorts, cash, pending_longs,
          pending_shorts, pending_orders, old_pending_orders, logs, p_fair,
          order_book, quote, order_plan, now, close_timestamp, pc, call,
          cycle_start, fetch>>

\* ------------------------------------------------------------ arithmetic
Min(a, b) == IF a <= b THEN a ELSE b
Max(a, b) == IF a >= b THEN a ELSE b

\* Python round(): nearest, ties to even, of the rational n / d (d > 0)
RoundHalfEven(n, d) ==
    LET q == n \div d
        rem == n - q * d
    IN  IF 2 * rem < d THEN q
        ELSE IF 2 * rem > d THEN q + 1
        ELSE IF q % 2 = 0 THEN q ELSE q + 1

\* to_size(x) for x = n / d hundredths of a share
to_size(n, d) == Max(RoundHalfEven(n, d), 0)

\* clamp_price(x), x in ticks
clamp_price(x) == Max(1, Min(x, TicksPerUnit - 1))

\* to_price(x), x in sub-ticks; result in ticks
to_price(x) == clamp_price(RoundHalfEven(x, SubTicks))

\* less_than with its arguments the wrong way round
less_than_swapped(a, b) == b * TolScale <= a * TolScale + 1

\* less_than(a, b): a <= b + 1e-6, sizes in hundredths
less_than(a, b) == a * TolScale <= b * TolScale + 1

\* is_matching that forgets to compare the price
is_matching_any_price(a, b) == a.type = b.type /\ a.side = b.side

\* is_matching(a, b)
is_matching(a, b) == a.type = b.type /\ a.side = b.side /\ a.price = b.price

\* ------------------------------------------------------------ order book
best_bid_price(book) == IF Len(book.bids) > 0 THEN book.bids[1].price ELSE 0
best_ask_price(book) ==
    IF Len(book.asks) > 0 THEN book.asks[1].price ELSE TicksPerUnit

\* was_executed that also counts a price equal to the best price as filled
was_executed_or_equal(book, o) ==
    LET bb == best_bid_price(book)
        ba == best_ask_price(book)
    IN  IF o.type = "YES" THEN
            IF o.side = "BUY" THEN bb <= o.price ELSE ba >= o.price
        ELSE
            IF o.side = "BUY" THEN TicksPerUnit - ba <= o.price
            ELSE TicksPerUnit - bb >= o.price

\* was_executed(order_book, limit_order)
was_executed(book, o) ==
    LET bb == best_bid_price(book)
        ba == best_ask_price(book)
    IN  IF o.type = "YES" THEN
            IF o.side = "BUY" THEN ~(bb = o.price) /\ bb < o.price
            ELSE IF o.side = "SELL" THEN ~(ba = o.price) /\ ba > o.price
            ELSE FALSE
        ELSE IF o.type = "NO" THEN
            IF o.side = "BUY" THEN
                LET best_bid_price_no == TicksPerUnit - ba
                IN  ~(best_bid_price_no = o.price) /\ best_bid_price_no < o.price
            ELSE IF o.side = "SELL" THEN
                LET best_ask_price_no == TicksPerUnit - bb
                IN  ~(best_ask_price_no = o.price) /\ best_ask_price_no > o.price
            ELSE FALSE
        ELSE FALSE

\* order_matches_order_book without the isclose test: strictly better only
order_matches_order_book_strict(o, book) ==
    LET bb == best_bid_price(book)
        ba == best_ask_price(book)
    IN  IF o.type = "YES" THEN
            IF o.side = "BUY" THEN o.price > ba ELSE o.price < bb
        ELSE
            IF o.side = "BUY" THEN o.price > TicksPerUnit - bb
            ELSE o.price < TicksPerUnit - ba

\* order_matches_order_book(order, order_book)
order_matches_order_book(o, book) ==
    LET bb == best_bid_price(book)
        ba == best_ask_price(book)
    IN  IF o.type = "YES" THEN
            IF o.side = "BUY" THEN (ba = o.price) \/ o.price > ba
            ELSE IF o.side = "SELL" THEN (bb = o.price) \/ o.price < bb
            ELSE FALSE
        ELSE IF o.type = "NO" THEN
            IF o.side = "BUY" THEN
                LET best_ask_price_no == TicksPerUnit - bb
                IN  (best_ask_price_no = o.price) \/ o.price > best_ask_price_no
            ELSE IF o.side = "SELL" THEN
                LET best_bid_price_no == TicksPerUnit - ba
                IN  (best_bid_price_no = o.price) \/ o.price < best_bid_price_no
            ELSE FALSE
        ELSE FALSE

\* ---------------------------------------------------------------- ledger
Ledger(y, n, l, s, c) ==
    [yes_shares |-> y, no_shares |-> n, longs |-> l, shorts |-> s, cash |-> c]

\* update_inventory whose SELL branches subtract the value from cash
update_inventory_sell_pays(led, o) ==
    LET value == o.size * o.price
    IN  IF o.type = "YES" THEN
            IF o.side = "BUY" THEN
                [led EXCEPT !.yes_shares = @ + o.size, !.longs = @ + value,
                            !.cash = @ - value]
            ELSE
                [led EXCEPT !.yes_shares = @ - o.size, !.longs = @ - value,
                            !.cash = @ - value]
        ELSE
            IF o.side = "BUY" THEN
                [led EXCEPT !.no_shares = @ + o.size, !.shorts = @ + value,
                            !.cash = @ - value]
            ELSE
                [led EXCEPT !.no_shares = @ - o.size, !.shorts = @ - value,
                            !.cash = @ - value]

\* update_inventory whose BUY branches leave cash alone
update_inventory_buy_unfunded(led, o) ==
    LET value == o.size * o.price
    IN  IF o.type = "YES" THEN
            IF o.side = "BUY" THEN
                [led EXCEPT !.yes_shares = @ + o.size, !.longs = @ + value]
            ELSE
                [led EXCEPT !.yes_shares = @ - o.size, !.longs = @ - value,
                            !.cash = @ + value]
        ELSE
            IF o.side = "BUY" THEN
                [led EXCEPT !.no_shares = @ + o.size, !.shorts = @ + value]
            ELSE
                [led EXCEPT !.no_shares = @ - o.size, !.shorts = @ - value,
                            !.cash = @ + value]

\* update_inventory(executed_order) on the ledger led
update_inventory(led, o) ==
    LET value == o.size * o.price
    IN  IF o.type = "YES" THEN
            IF o.side = "BUY" THEN
                [led EXCEPT !.yes_shares = @ + o.size, !.longs = @ + value,
                            !.cash = @ - value]
            ELSE IF o.side = "SELL" THEN
                [led EXCEPT !.yes_shares = @ - o.size, !.longs = @ - value,
                            !.cash = @ + value]
            ELSE led
        ELSE IF o.type = "NO" THEN
            IF o.side = "BUY" THEN
                [led EXCEPT !.no_shares = @ + o.size, !.shorts = @ + value,
                            !.cash = @ - value]
            ELSE IF o.side = "SELL" THEN
                [led EXCEPT !.no_shares = @ - o.size, !.shorts = @ - value,
                            !.cash = @ + value]
            ELSE led
        ELSE led

\* update_pending_inventory that counts a SELL like a BUY
update_pending_inventory_unsigned(pend, o) ==
    LET value == o.size * o.price
    IN  IF o.type = "YES" THEN <<pend[1] + value, pend[2]>>
        ELSE IF o.type = "NO" THEN <<pend[1], pend[2] + value>>
        ELSE pend

\* update_pending_inventory(pending_order) on pend = <<pending_longs, pending_shorts>>
update_pending_inventory(pend, o) ==
    LET value == o.size * o.price
    IN  IF o.type = "YES" THEN
            IF o.side = "BUY" THEN <<pend[1] + value, pend[2]>>
            ELSE IF o.side = "SELL" THEN <<pend[1] - value, pend[2]>>
            ELSE pend
        ELSE IF o.type = "NO" THEN
            IF o.side = "BUY" THEN <<pend[1], pend[2] + value>>
            ELSE IF o.side = "SELL" THEN <<pend[1], pend[2] - value>>
            ELSE pend
        ELSE pend

\* add_order_to_logs that records the two best prices the wrong way round
log_entry_swapped_book(o, book, p, t) ==
    [time |-> t, type |-> o.type, side |-> o.side, size |-> o.size,
     price |-> o.price, best_bid |-> best_ask_price(book),
     best_ask |-> best_bid_price(book), p_fair |-> p]

\* the entry add_order_to_logs(order, order_book) appends
log_entry(o, book, p, t) ==
    [time |-> t, type |-> o.type, side |-> o.side, size |-> o.size,
     price |-> o.price, best_bid |-> best_bid_price(book),
     best_ask |-> best_ask_price(book), p_fair |-> p]

\* --------------------------------------------------------------- quoting
\* get_my_best_bid_ask that takes max instead of min on the bid side
get_my_best_bid_ask_max(p, r, bb, ba) ==
    LET bid_cand == p - r
        ask_cand == p + r
        no_bid == bid_cand < 0
        no_ask == ask_cand > PScale
        bid_floor == clamp_price(bid_cand \div SubTicks)
        ask_ceil == clamp_price((ask_cand + SubTicks - 1) \div SubTicks)
    IN  [my_bid |-> IF no_bid THEN 0
                    ELSE to_price(Max(bid_floor, bb + 1) * SubTicks),
         my_ask |-> IF no_ask THEN TicksPerUnit
                    ELSE to_price(Max(ask_ceil, ba - 1) * SubTicks),
         no_bid |-> no_bid,
         no_ask |-> no_ask]

\* get_my_best_bid_ask that quotes its rounded candidates without looking
\* at the book
get_my_best_bid_ask_uncapped(p, r, bb, ba) ==
    LET bid_cand == p - r
        ask_cand == p + r
        no_bid == bid_cand < 0
        no_ask == ask_cand > PScale
        bid_floor == clamp_price(bid_cand \div SubTicks)
        ask_ceil == clamp_price((ask_cand + SubTicks - 1) \div SubTicks)
    IN  [my_bid |-> IF no_bid THEN 0 ELSE to_price(bid_floor * SubTicks),
         my_ask |-> IF no_ask THEN TicksPerUnit
                    ELSE to_price(ask_ceil * SubTicks),
         no_bid |-> no_bid,
         no_ask |-> no_ask]

\* get_my_best_bid_ask(best_bid_price, best_ask_price) with p_fair = p and
\* RISK_THRESHOLD = r (sub-ticks); prices in ticks
get_my_best_bid_ask(p, r, bb, ba) ==
    LET bid_cand == p - r
        ask_cand == p + r
        no_bid == bid_cand < 0
        no_ask == ask_cand > PScale
        \* math.floor(x * a) / a, then clamp_price
        bid_floor == clamp_price(bid_cand \div SubTicks)
        \* math.ceil(x * a) / a, then clamp_price
        ask_ceil == clamp_price((ask_cand + SubTicks - 1) \div SubTicks)
    IN  [my_bid |-> IF no_bid THEN 0
                    ELSE to_price(Min(bid_floor, bb + 1) * SubTicks),
         my_ask |-> IF no_ask THEN TicksPerUnit
                    ELSE to_price(Max(ask_ceil, ba - 1) * SubTicks),
         no_bid |-> no_bid,
         no_ask |-> no_ask]

\* get_snipe_mode with inclusive comparisons
get_snipe_mode_inclusive(p, r, bb, ba) ==
    [sniping_bid |-> bb * SubTicks - r >= p,
     sniping_ask |-> ba * SubTicks + r <= p]

\* get_snipe_mode(best_bid_price, best_ask_price)
get_snipe_mode(p, r, bb, ba) ==
    [sniping_bid |-> bb * SubTicks - r > p,
     sniping_ask |-> ba * SubTicks + r < p]

Order(t, sd, pr, sz) == [type |-> t, side |-> sd, price |-> pr, size |-> sz]

\* the derived values with the sizes of the two best levels mixed up
plan_quote_swapped_sizes(book, p, r) ==
    LET bb == IF Len(book.bids) > 0
              THEN to_price(book.bids[1].price * SubTicks) ELSE 0
        ba == IF Len(book.asks) > 0
              THEN to_price(book.asks[1].price * SubTicks) ELSE TicksPerUnit
        q == get_my_best_bid_ask(p, r, bb, ba)
        s == get_snipe_mode(p, r, bb, ba)
    IN  [best_bid_price |-> bb,
         best_ask_price |-> ba,
         best_bid_size |-> IF Len(book.asks) > 0
                           THEN to_size(book.asks[1].size, 1) ELSE 0,
         best_ask_size |-> IF Len(book.bids) > 0
                           THEN to_size(book.bids[1].size, 1) ELSE 0,
         my_bid |-> q.my_bid, my_ask |-> q.my_ask,
         no_bid |-> q.no_bid, no_ask |-> q.no_ask,
         sniping_bid |-> s.sniping_bid, sniping_ask |-> s.sniping_ask]

\* the values get_order_plan derives from the book and the quote
plan_quote(book, p, r) ==
    LET bb == IF Len(book.bids) > 0
              THEN to_price(book.bids[1].price * SubTicks) ELSE 0
        ba == IF Len(book.asks) > 0
              THEN to_price(book.asks[1].price * SubTicks) ELSE TicksPerUnit
        q == get_my_best_bid_ask(p, r, bb, ba)
        s == get_snipe_mode(p, r, bb, ba)
    IN  [best_bid_price |-> bb,
         best_ask_price |-> ba,
         best_bid_size |-> IF Len(book.bids) > 0
                           THEN to_size(book.bids[1].size, 1) ELSE 0,
         best_ask_size |-> IF Len(book.asks) > 0
                           THEN to_size(book.asks[1].size, 1) ELSE 0,
         my_bid |-> q.my_bid, my_ask |-> q.my_ask,
         no_bid |-> q.no_bid, no_ask |-> q.no_ask,
         sniping_bid |-> s.sniping_bid, sniping_ask |-> s.sniping_ask]

\* get_order_plan(order_book): the plan built from the ledger led and the
\* derived values q
get_order_plan(led, q) ==
    LET long_inventory_left == MaxInventory - led.longs
        short_inventory_left == MaxInventory - led.shorts
        sell_yes ==
            IF led.yes_shares >= MinOrderSize THEN
                IF q.sniping_bid
                THEN <<Order("YES", "SELL", q.best_bid_price,
                             Min(q.best_bid_size, to_size(led.yes_shares, 1)))>>
                ELSE <<Order("YES", "SELL", q.my_ask, to_size(led.yes_shares, 1))>>
            ELSE <<>>
        sell_no ==
            IF led.no_shares >= MinOrderSize THEN
                IF q.sniping_ask
                THEN <<Order("NO", "SELL",
                             to_price((TicksPerUnit - q.best_ask_price) * SubTicks),
                             Min(q.best_ask_size, to_size(led.no_shares, 1)))>>
                ELSE <<Order("NO", "SELL",
                             to_price((TicksPerUnit - q.my_bid) * SubTicks),
                             to_size(led.no_shares, 1))>>
            ELSE <<>>
        buy_yes ==
            IF long_inventory_left >= ValueScale /\ ~q.no_bid THEN
                IF q.sniping_ask
                THEN <<Order("YES", "BUY", q.best_ask_price,
                             Min(to_size(long_inventory_left, q.best_ask_price),
                                 q.best_ask_size))>>
                ELSE <<Order("YES", "BUY", q.my_bid,
                             to_size(long_inventory_left, q.my_bid))>>
            ELSE <<>>
        buy_no ==
            IF short_inventory_left >= ValueScale /\ ~q.no_ask THEN
                IF q.sniping_bid
                THEN LET price == to_price((TicksPerUnit - q.best_bid_price) * SubTicks)
                     IN  <<Order("NO", "BUY", price,
                                 Min(to_size(short_inventory_left, price),
                                     q.best_bid_size))>>
                ELSE LET price == to_price((TicksPerUnit - q.my_ask) * SubTicks)
                     IN  <<Order("NO", "BUY", price,
                                 to_size(short_inventory_left, price))>>
            ELSE <<>>
    IN  sell_yes \o sell_no \o buy_yes \o buy_no

\* ------------------------------------------------------- reconciliation
current_ledger == Ledger(yes_shares, no_shares, longs, shorts, cash)

\* update_pending_orders that keeps a filled order in the pending list
update_pending_step_keeps_filled(acc, o, book, p, t) ==
    IF was_executed(book, o)
    THEN [acc EXCEPT !.led = update_inventory(@, o),
                     !.logs = Append(@, log_entry(o, book, p, t)),
                     !.pending = Append(@, o)]
    ELSE [acc EXCEPT !.pending = Append(@, o),
                     !.pend = update_pending_inventory(@, o)]

\* one iteration of the loop of update_pending_orders; acc carries the
\* ledger, the log, new_pending_orders and <<pending_longs, pending_shorts>>
update_pending_step(acc, o, book, p, t) ==
    IF was_executed(book, o)
    THEN [acc EXCEPT !.led = update_inventory(@, o),
                     !.logs = Append(@, log_entry(o, book, p, t))]
    ELSE [acc EXCEPT !.pending = Append(@, o),
                     !.pend = update_pending_inventory(@, o)]

RECURSIVE update_pending_loop(_, _, _, _, _, _)
update_pending_loop(acc, orders, i, book, p, t) ==
    IF i > Len(orders) THEN acc
    ELSE update_pending_loop(update_pending_step(acc, orders[i], book, p, t),
                             orders, i + 1, book, p, t)

\* simulate_execute_orders that also makes a marketable order pending
simulate_execute_step_keeps_filled(acc, o, book, p, t) ==
    IF order_matches_order_book(o, book)
    THEN [acc EXCEPT !.led = update_inventory(@, o),
                     !.logs = Append(@, log_entry(o, book, p, t)),
                     !.pending = Append(@, o)]
    ELSE [acc EXCEPT !.pending = Append(@, o),
                     !.pend = update_pending_inventory(@, o)]

\* simulate_execute_orders that books an order made pending into the ledger
simulate_execute_step_books_pending(acc, o, book, p, t) ==
    IF order_matches_order_book(o, book)
    THEN [acc EXCEPT !.led = update_inventory(@, o),
                     !.logs = Append(@, log_entry(o, book, p, t))]
    ELSE [acc EXCEPT !.led = update_inventory(@, o),
                     !.pending = Append(@, o),
                     !.pend = update_pending_inventory(@, o)]

\* one iteration of the loop of simulate_execute_orders
simulate_execute_step(acc, o, book, p, t) ==
    IF order_matches_order_book(o, book)
    THEN [acc EXCEPT !.led = update_inventory(@, o),
                     !.logs = Append(@, log_entry(o, book, p, t))]
    ELSE [acc EXCEPT !.pending = Append(@, o),
                     !.pend = update_pending_inventory(@, o)]

RECURSIVE simulate_execute_loop(_, _, _, _, _, _)
simulate_execute_loop(acc, orders, i, book, p, t) ==
    IF i > Len(orders) THEN acc
    ELSE simulate_execute_loop(simulate_execute_step(acc, orders[i], book, p, t),
                               orders, i + 1, book, p, t)

\* deduplication that keeps the resting order but forgets to reduce the
\* plan order
reduce_step_no_reduction(acc, p, j) ==
    LET o == acc.plan[j]
    IN  IF is_matching(o, p) /\ less_than(p.size, o.size)
        THEN [acc EXCEPT !.pending = Append(@, p),
                         !.pend = update_pending_inventory(@, o)]
        ELSE acc

\* the body of the inner loop of reduce_order_plan_size_based_on_pending_orders
\* for pending order p and plan order number j; acc carries the plan (whose
\* sizes are reduced in place), new_pending_orders and the pending notional
reduce_step(acc, p, j) ==
    LET o == acc.plan[j]
    IN  IF is_matching(o, p) /\ less_than(p.size, o.size)
        THEN LET reduced == [o EXCEPT !.size = @ - p.size]
             IN  [acc EXCEPT !.plan[j] = reduced,
                             !.pending = Append(@, p),
                             !.pend = update_pending_inventory(@, reduced)]
        ELSE acc

RECURSIVE reduce_inner_loop(_, _, _)
reduce_inner_loop(acc, p, j) ==
    IF j > Len(acc.plan) THEN acc
    ELSE reduce_inner_loop(reduce_step(acc, p, j), p, j + 1)

RECURSIVE reduce_outer_loop(_, _, _)
reduce_outer_loop(acc, pending, i) ==
    IF i > Len(pending) THEN acc
    ELSE reduce_outer_loop(reduce_inner_loop(acc, pending[i], 1), pending, i + 1)

\* order_plan = [o for o in order_plan if o['size'] >= self.min_order_size]
min_size_filter(plan) ==
    LET keep(o) == o.size >= MinOrderSize
    IN  SelectSeq(plan, keep)

\* reduce_order_plan_size_based_on_pending_orders(order_plan)
reduce_order_plan(plan, pending) ==
    LET acc == reduce_outer_loop(
                   [plan |-> plan, pending |-> <<>>, pend |-> <<0, 0>>],
                   pending, 1)
    IN  [acc EXCEPT !.plan = min_size_filter(@)]

\* ------------------------------------------------------- mark-to-market
\* get_market_sell_value that sells the whole remaining size into each
\* level, whatever the level holds
market_sell_step_ignores_depth(acc, price, level_size) ==
    [size |-> 0, value |-> acc.value + acc.size * price]

\* one iteration of a loop of get_market_sell_value: acc carries size and
\* value
market_sell_step(acc, price, level_size) ==
    LET size_matched == Min(acc.size, level_size)
    IN  [size |-> acc.size - size_matched,
         value |-> acc.value + size_matched * price]

RECURSIVE market_sell_walk(_, _, _, _)
\* the loop over one side of the book, from level i on; `size < 0.01` is
\* size < 1 in hundredths
market_sell_walk(acc, levels, i, is_no) ==
    IF i > Len(levels) THEN acc.value
    ELSE LET price == IF is_no THEN TicksPerUnit - levels[i].price
                      ELSE levels[i].price
             next == market_sell_step(acc, price, levels[i].size)
         IN  IF next.size < 1 THEN next.value
             ELSE market_sell_walk(next, levels, i + 1, is_no)

\* get_market_sell_value(position, order_book)
get_market_sell_value(position, book) ==
    IF position.type = "YES"
    THEN market_sell_walk([size |-> position.size, value |-> 0],
                          book.bids, 1, FALSE)
    ELSE IF position.type = "NO"
    THEN market_sell_walk([size |-> position.size, value |-> 0],
                          book.asks, 1, TRUE)
    ELSE 0

\* ------------------------------------------------------ live submission
\* execute_orders that makes a pending entry of a failed submission too
execute_step_keeps_failed(pending, o, id) ==
    Append(pending, [id |-> id, size |-> o.size, price |-> o.price,
                     side |-> o.side, type |-> o.type])

\* one iteration of the loop of execute_orders; id is what place_order
\* returned for o, 0 standing for None
execute_step(pending, o, id) ==
    IF id = 0 THEN pending
    ELSE Append(pending, [id |-> id, size |-> o.size, price |-> o.price,
                          side |-> o.side, type |-> o.type])

RECURSIVE execute_orders(_, _, _, _)
\* execute_orders(order_plan, yes_token_id, no_token_id), from order i on
execute_orders(pending, plan, ids, i) ==
    IF i > Len(plan) THEN pending
    ELSE execute_orders(execute_step(pending, plan[i], ids[i]), plan, ids,
                        i + 1)

\* ------------------------------------------------------------- the inputs
Level(pr, sz) == [price |-> pr, size |-> sz]
Book(bids, asks) == [bids |-> bids, asks |-> asks]
NoBook == Book(<<>>, <<>>)
NoQuote == [best_bid_price |-> 0, best_ask_price |-> 0, best_bid_size |-> 0,
            best_ask_size |-> 0, my_bid |-> 0, my_ask |-> 0, no_bid |-> FALSE,
            no_ask |-> FALSE, sniping_bid |-> FALSE, sniping_ask |-> FALSE]
NoOrder == Order("YES", "BUY", 0, 0)
NoLedger == Ledger(0, 0, 0, 0, 0)
NoCall == [fn |-> "none", order |-> NoOrder, book |-> NoBook, p |-> 0, r |-> 0,
           led |-> NoLedger, flag |-> FALSE, quote |-> NoQuote,
           led_out |-> NoLedger, plan |-> <<>>, ids |-> <<>>,
           pending |-> <<>>, pending_out |-> <<>>, value |-> 0]

\* order books the fetch of a cycle may return (bids descending, asks
\* ascending, best bid < best ask, sizes in hundredths of a share)
CycleBooks ==
    { NoBook,
      Book(<<Level(3, 600), Level(2, 900)>>, <<Level(4, 600), Level(6, 900)>>),
      Book(<<Level(4, 900)>>, <<Level(6, 900)>>),
      Book(<<Level(7, 600)>>, <<Level(8, 900)>>) }

\* fair probabilities the oracle may return, in sub-ticks
CycleProbs == {0, 13, 18, PScale}

\* tokens for the float values nan and inf, outside every probability
NotANumber == 0 - PScale - 1
Infinity == 2 * PScale
NonFiniteProbs == {NotANumber, Infinity}

\* what the loop holds at the head of a cycle
CycleState ==
    [led |-> Ledger(yes_shares, no_shares, longs, shorts, cash),
     pending_orders |-> pending_orders,
     logs |-> logs]

\* fetch_market_data has not been called
NoFetch == [pc |-> "idle", max_retries |-> 0, attempt |-> 0, gathers |-> 0,
            results |-> <<>>, slept |-> <<>>]

\* ------------------------------------------------------------ the machine
\* MarketMakerBot.__init__
InitBot ==
    /\ yes_shares = 0 /\ no_shares = 0 /\ longs = 0 /\ shorts = 0
    /\ pending_longs = 0 /\ pending_shorts = 0
    /\ pending_orders = <<>>
    /\ old_pending_orders = <<>>
    /\ cash = PortfolioSize * ValueScale
    /\ logs = <<>>
    /\ p_fair = -1
    /\ order_book = NoBook
    /\ quote = NoQuote
    /\ order_plan = <<>>
    /\ now = 0
    /\ close_timestamp \in 1..SessionLen
    /\ pc = "loop"
    /\ cycle_start = [led |-> Ledger(0, 0, 0, 0, PortfolioSize * ValueScale),
                      pending_orders |-> <<>>, logs |-> <<>>]

Init == InitBot /\ call = NoCall /\ fetch = NoFetch

\* switch_events that clears the whole position, longs and shorts included
SwitchEvents_clears_position ==
    /\ pc = "loop"
    /\ close_timestamp - now <= 0
    /\ close_timestamp' \in (now + 1)..(now + SessionLen)
    /\ yes_shares' = 0
    /\ no_shares' = 0
    /\ longs' = 0
    /\ shorts' = 0
    /\ UNCHANGED <<cash, pending_longs, pending_shorts,
                   pending_orders, old_pending_orders, logs, p_fair,
                   order_book, quote, order_plan, now, pc, call,
                   cycle_start, fetch>>

\* run(): secs_left <= 0, switch_events() and continue
SwitchEvents ==
    /\ pc = "loop"
    /\ close_timestamp - now <= 0
    /\ close_timestamp' \in (now + 1)..(now + SessionLen)
    /\ yes_shares' = 0
    /\ no_shares' = 0
    /\ UNCHANGED <<longs, shorts, cash, pending_longs, pending_shorts,
                   pending_orders, old_pending_orders, logs, p_fair,
                   order_book, quote, order_plan, now, pc, call,
                   cycle_start, fetch>>

\* run(): fetch_market_data() and calculate_probability_plain()
FetchMarketData ==
    /\ pc = "loop"
    /\ close_timestamp - now > 0
    /\ now < MaxCycles
    /\ \E book \in CycleBooks, p \in CycleProbs \cup NonFiniteProbs :
        /\ order_book' = book
        /\ p_fair' = p
    /\ pc' = "update_pending_orders"
    /\ cycle_start' = CycleState
    /\ UNCHANGED <<yes_shares, no_shares, longs, shorts, cash, pending_longs,
                   pending_shorts, pending_orders, old_pending_orders, logs,
                   quote, order_plan, now, close_timestamp, call, fetch>>

\* run(): fetch_market_data() raises once its retries are used up; run()
\* has no handler, so the exception ends the loop
FetchMarketDataRaises ==
    /\ pc = "loop"
    /\ close_timestamp - now > 0
    /\ now < MaxCycles
    /\ pc' = "fetch_raised"
    /\ cycle_start' = CycleState
    /\ UNCHANGED <<yes_shares, no_shares, longs, shorts, cash, pending_longs,
                   pending_shorts, pending_orders, old_pending_orders, logs,
                   p_fair, order_book, quote, order_plan, now,
                   close_timestamp, call, fetch>>

\* run(): the order book fetch hid an HTTP error and returned None in place
\* of the book; p_fair is computed, then order_book['min_order_size']
\* raises and ends the loop
MissingOrderBook ==
    /\ pc = "loop"
    /\ close_timestamp - now > 0
    /\ now < MaxCycles
    /\ \E p \in CycleProbs : p_fair' = p
    /\ pc' = "order_book_raised"
    /\ cycle_start' = CycleState
    /\ UNCHANGED <<yes_shares, no_shares, longs, shorts, cash, pending_longs,
                   pending_shorts, pending_orders, old_pending_orders, logs,
                   order_book, quote, order_plan, now, close_timestamp, call,
                   fetch>>

\* update_pending_orders(order_book)
UpdatePendingOrders ==
    /\ pc = "update_pending_orders"
    /\ LET acc == update_pending_loop(
                      [led |-> current_ledger, logs |-> logs,
                       pending |-> <<>>, pend |-> <<0, 0>>],
                      pending_orders, 1, order_book, p_fair, now)
       IN  /\ yes_shares' = acc.led.yes_shares
           /\ no_shares' = acc.led.no_shares
           /\ longs' = acc.led.longs
           /\ shorts' = acc.led.shorts
           /\ cash' = acc.led.cash
           /\ logs' = acc.logs
           /\ pending_orders' = acc.pending
           /\ old_pending_orders' = pending_orders
           /\ pending_longs' = acc.pend[1]
           /\ pending_shorts' = acc.pend[2]
    /\ pc' = "get_order_plan"
    /\ UNCHANGED <<p_fair, order_book, quote, order_plan, now,
                   close_timestamp, call,
                   cycle_start, fetch>>

\* get_order_plan(order_book)
GetOrderPlan ==
    /\ pc = "get_order_plan"
    /\ p_fair \notin NonFiniteProbs
    /\ quote' = plan_quote(order_book, p_fair, RiskThreshold)
    /\ order_plan' = get_order_plan(current_ledger, quote')
    /\ pc' = "reduce_order_plan"
    /\ UNCHANGED <<yes_shares, no_shares, longs, shorts, cash, pending_longs,
                   pending_shorts, pending_orders, old_pending_orders, logs,
                   p_fair, order_book, now, close_timestamp, call,
                   cycle_start, fetch>>

\* get_order_plan(order_book) with p_fair nan or inf: math.floor in
\* get_my_best_bid_ask raises ValueError or OverflowError; run() has no
\* handler, so the exception ends the loop
GetOrderPlanRaises ==
    /\ pc = "get_order_plan"
    /\ p_fair \in NonFiniteProbs
    /\ pc' = "get_order_plan_raised"
    /\ UNCHANGED <<yes_shares, no_shares, longs, shorts, cash, pending_longs,
                   pending_shorts, pending_orders, old_pending_orders, logs,
                   p_fair, order_book, quote, order_plan, now,
                   close_timestamp, call, cycle_start, fetch>>

\* reduce_order_plan_size_based_on_pending_orders(order_plan)
ReduceOrderPlan ==
    /\ pc = "reduce_order_plan"
    /\ LET acc == reduce_order_plan(order_plan, pending_orders)
       IN  /\ order_plan' = acc.plan
           /\ pending_orders' = acc.pending
           /\ old_pending_orders' = pending_orders
           /\ pending_longs' = acc.pend[1]
           /\ pending_shorts' = acc.pend[2]
    /\ pc' = "simulate_execute_orders"
    /\ UNCHANGED <<yes_shares, no_shares, longs, shorts, cash, logs, p_fair,
                   order_book, quote, now, close_timestamp, call,
                   cycle_start, fetch>>

\* simulate_execute_orders that extends the plan by the pending orders twice
SimulateExecuteOrders_extends_twice ==
    /\ pc = "simulate_execute_orders"
    /\ LET extended == order_plan \o pending_orders \o pending_orders
           acc == simulate_execute_loop(
                      [led |-> current_ledger, logs |-> logs,
                       pending |-> <<>>, pend |-> <<0, 0>>],
                      extended, 1, order_book, p_fair, now)
       IN  /\ order_plan' = extended
           /\ yes_shares' = acc.led.yes_shares
           /\ no_shares' = acc.led.no_shares
           /\ longs' = acc.led.longs
           /\ shorts' = acc.led.shorts
           /\ cash' = acc.led.cash
           /\ logs' = acc.logs
           /\ pending_orders' = acc.pending
           /\ old_pending_orders' = pending_orders
           /\ pending_longs' = acc.pend[1]
           /\ pending_shorts' = acc.pend[2]
    /\ pc' = "report"
    /\ UNCHANGED <<p_fair, order_book, quote, now, close_timestamp, call,
                   cycle_start, fetch>>

\* simulate_execute_orders(order_plan, order_book); order_plan.extend()
\* leaves run()'s list extended by the pending orders
SimulateExecuteOrders ==
    /\ pc = "simulate_execute_orders"
    /\ LET extended == order_plan \o pending_orders
           acc == simulate_execute_loop(
                      [led |-> current_ledger, logs |-> logs,
                       pending |-> <<>>, pend |-> <<0, 0>>],
                      extended, 1, order_book, p_fair, now)
       IN  /\ order_plan' = extended
           /\ yes_shares' = acc.led.yes_shares
           /\ no_shares' = acc.led.no_shares
           /\ longs' = acc.led.longs
           /\ shorts' = acc.led.shorts
           /\ cash' = acc.led.cash
           /\ logs' = acc.logs
           /\ pending_orders' = acc.pending
           /\ old_pending_orders' = pending_orders
           /\ pending_longs' = acc.pend[1]
           /\ pending_shorts' = acc.pend[2]
    /\ pc' = "report"
    /\ UNCHANGED <<p_fair, order_book, quote, now, close_timestamp, call,
                   cycle_start, fetch>>

\* run(): print_positions, PnL and time.sleep(LOOP_DELAY_SECS): the cycle
\* is over and time has passed
Report ==
    /\ pc = "report"
    /\ now' = now + 1
    /\ pc' = "loop"
    /\ UNCHANGED <<yes_shares, no_shares, longs, shorts, cash, pending_longs,
                   pending_shorts, pending_orders, old_pending_orders, logs,
                   p_fair, order_book, quote, order_plan, close_timestamp,
                   call,
                   cycle_start, fetch>>

Next ==
    \/ SwitchEvents
    \/ FetchMarketData
    \/ FetchMarketDataRaises
    \/ MissingOrderBook
    \/ UpdatePendingOrders
    \/ GetOrderPlan
    \/ GetOrderPlanRaises
    \/ ReduceOrderPlan
    \/ SimulateExecuteOrders
    \/ Report

Spec == Init /\ [][Next]_vars

\* ------------------------------------------- the functions on their own
\* arguments for stand-alone calls of the pure functions and of
\* update_inventory

\* books with at most one level a side, crossed ones included
FnBooks ==
    { Book(bids, asks) :
        bids \in {<<>>} \cup {<<Level(b, 600)>> : b \in 1..(TicksPerUnit - 1)},
        asks \in {<<>>} \cup {<<Level(a, 900)>> : a \in 1..(TicksPerUnit - 1)} }

FnOrders ==
    { Order(t, sd, pr, sz) : t \in {"YES", "NO"}, sd \in {"BUY", "SELL"},
                             pr \in 0..TicksPerUnit, sz \in {520, 1667} }

FnProbs == 0..PScale
FnRisks == 1..(SubTicks + 1)

FnLedgers ==
    { Ledger(0, 0, 0, 0, PortfolioSize * ValueScale),
      Ledger(600, 0, 2400, 0, 7600),
      Ledger(520, 1667, 5000, 5001, 0 - 1),
      Ledger(0 - 833, 1000, 833, 4167, 5000) }

\* the plan get_order_plan builds when all four of its orders are planned
FullPlan ==
    << Order("YES", "SELL", 7, 520), Order("NO", "SELL", 4, 600),
       Order("YES", "BUY", 4, 1250), Order("NO", "BUY", 3, 1667) >>

\* the plan with the orders at the positions S left in, in plan order
SubPlan(S) ==
    LET F[i \in 0..Len(FullPlan)] ==
            IF i = 0 THEN <<>>
            ELSE IF i \in S THEN Append(F[i - 1], FullPlan[i])
            ELSE F[i - 1]
    IN  F[Len(FullPlan)]

ExecPlans == { SubPlan(S) : S \in SUBSET (1..Len(FullPlan)) }

\* what place_order returns: an order id, or 0 for None after an error
PlaceOrderResults == {0, 1, 2}

\* the pending set execute_orders finds
ExecPending ==
    { <<>>, <<[id |-> 3, size |-> 833, price |-> 6, side |-> "BUY",
               type |-> "YES"]>> }

\* books to mark a position against: up to two levels a side, bids
\* descending, asks ascending
MarkBooks ==
    { Book(bids, asks) :
        bids \in {<<>>, <<Level(4, 900)>>, <<Level(3, 600), Level(2, 900)>>},
        asks \in {<<>>, <<Level(6, 900)>>, <<Level(4, 600), Level(6, 900)>>} }

\* positions get_position_value marks: at least min_order_size shares
MarkPositions ==
    { Order(t, "SELL", 0, sz) :
        t \in {"YES", "NO"}, sz \in {500, 600, 1000, 1500, 1667, 5000} }

FnArgs ==
    { [NoCall EXCEPT !.fn = "args_quote", !.book = b, !.p = p, !.r = r] :
        b \in FnBooks, p \in FnProbs, r \in FnRisks }
    \cup
    { [NoCall EXCEPT !.fn = "args_order", !.book = b, !.order = o] :
        b \in FnBooks, o \in FnOrders }
    \cup
    { [NoCall EXCEPT !.fn = "args_fill", !.led = l, !.order = o] :
        l \in FnLedgers, o \in FnOrders }
    \cup
    { [NoCall EXCEPT !.fn = "args_mark", !.order = pos, !.book = b] :
        pos \in MarkPositions, b \in MarkBooks }
    \cup
    UNION { { [NoCall EXCEPT !.fn = "args_execute", !.plan = pl, !.ids = ids,
                             !.pending = pd] :
                ids \in [1..Len(pl) -> PlaceOrderResults], pd \in ExecPending } :
            pl \in ExecPlans }

InitFn == InitBot /\ call \in FnArgs /\ fetch = NoFetch

bot_vars == <<yes_shares, no_shares, longs, shorts, cash, pending_longs,
              pending_shorts, pending_orders, old_pending_orders, logs,
              p_fair, order_book, quote, order_plan, now, close_timestamp, pc,
              cycle_start>>

\* get_my_best_bid_ask and get_snipe_mode as get_order_plan calls them
CallGetMyBestBidAsk ==
    /\ call.fn = "args_quote"
    /\ call' = [call EXCEPT !.fn = "get_my_best_bid_ask",
                            !.quote = plan_quote(call.book, call.p, call.r)]
    /\ UNCHANGED <<bot_vars, fetch>>

CallWasExecuted ==
    /\ call.fn = "args_order"
    /\ call' = [call EXCEPT !.fn = "was_executed",
                            !.flag = was_executed(call.book, call.order)]
    /\ UNCHANGED <<bot_vars, fetch>>

CallOrderMatchesOrderBook ==
    /\ call.fn = "args_order"
    /\ call' = [call EXCEPT !.fn = "order_matches_order_book",
                            !.flag = order_matches_order_book(call.order,
                                                              call.book)]
    /\ UNCHANGED <<bot_vars, fetch>>

CallUpdateInventory ==
    /\ call.fn = "args_fill"
    /\ call' = [call EXCEPT !.fn = "update_inventory",
                            !.led_out = update_inventory(call.led, call.order)]
    /\ UNCHANGED <<bot_vars, fetch>>

\* execute_orders on the pending set call.pending, place_order answering
\* call.ids
CallExecuteOrders ==
    /\ call.fn = "args_execute"
    /\ call' = [call EXCEPT !.fn = "execute_orders",
                            !.pending_out = execute_orders(call.pending,
                                                           call.plan,
                                                           call.ids, 1)]
    /\ UNCHANGED <<bot_vars, fetch>>

\* get_market_sell_value as get_position_value calls it
CallGetMarketSellValue ==
    /\ call.fn = "args_mark"
    /\ call' = [call EXCEPT !.fn = "get_market_sell_value",
                            !.value = get_market_sell_value(call.order,
                                                            call.book)]
    /\ UNCHANGED <<bot_vars, fetch>>

NextFn ==
    \/ CallGetMarketSellValue
    \/ CallGetMyBestBidAsk
    \/ CallWasExecuted
    \/ CallOrderMatchesOrderBook
    \/ CallUpdateInventory
    \/ CallExecuteOrders

SpecFn == InitFn /\ [][NextFn]_vars

\* ------------------------------------------------ fetch_market_data alone
MaxRetries == 5         \* largest max_retries a call is made with
InitialDelay == 1       \* initial_delay = 1.0, seconds
BackoffFactor == 2      \* backoff_factor = 2.0

RECURSIVE Power(_, _)
\* b ** n
Power(b, n) == IF n = 0 THEN 1 ELSE b * Power(b, n - 1)

\* what one fetch of an attempt hands to asyncio.gather: its data, "none"
\* when it caught an error itself and returned None (or an empty list) in
\* place of the data, "error" when it raised
PriceOutcomes == {"data", "none", "error"}
OrderBookOutcomes == {"data", "none", "error"}
TradeHistoryOutcomes == {"data", "none"}
OpenOrdersOutcomes == {"data", "none"}

\* calls fetch_market_data(max_retries = m)
FetchArgs ==
    { [NoFetch EXCEPT !.pc = "gather", !.max_retries = m] : m \in 1..MaxRetries }

InitFetch == InitBot /\ call = NoCall /\ fetch \in FetchArgs

\* one pass of the body of the for loop: gather the four fetches; return the
\* results when none is an exception, raise on the last attempt, otherwise
\* go on to the sleep
Gather ==
    /\ fetch.pc = "gather"
    /\ \E price \in PriceOutcomes, book \in OrderBookOutcomes,
          history \in TradeHistoryOutcomes, orders \in OpenOrdersOutcomes :
        LET results == <<price, book, history, orders>>
            errors == {i \in 1..4 : results[i] = "error"}
        IN  fetch' = [fetch EXCEPT
                !.results = results,
                !.gathers = @ + 1,
                !.pc = IF errors = {} THEN "returned"
                       ELSE IF fetch.attempt >= fetch.max_retries - 1
                       THEN "raised"
                       ELSE "sleep"]
    /\ UNCHANGED <<bot_vars, call>>

\* delay = initial_delay * backoff_factor ** attempt; asyncio.sleep(delay);
\* the next iteration of the for loop
Sleep ==
    /\ fetch.pc = "sleep"
    /\ fetch' = [fetch EXCEPT
            !.slept = Append(@, InitialDelay * Power(BackoffFactor, fetch.attempt)),
            !.attempt = @ + 1,
            !.pc = "gather"]
    /\ UNCHANGED <<bot_vars, call>>

NextFetch ==
    \/ Gather
    \/ Sleep

SpecFetch == InitFetch /\ [][NextFetch]_vars

\* ------------------------------------------------------ claim vocabulary
RECURSIVE Notional(_, _, _)
\* sum of price * size over the orders of a sequence with the given
\* outcome and side
Notional(orders, t, sd) ==
    IF orders = <<>> THEN 0
    ELSE (IF Head(orders).type = t /\ Head(orders).side = sd
          THEN Head(orders).price * Head(orders).size ELSE 0)
         + Notional(Tail(orders), t, sd)

HasOrder(orders, t, sd) ==
    \E i \in 1..Len(orders) : orders[i].type = t /\ orders[i].side = sd

\* C1 (as claimed): after every cycle longs plus the notional of the pending
\* YES BUY orders is at most max_inventory, likewise shorts and the pending
\* NO BUY orders; and an opening BUY is planned only with at least one
\* dollar of capacity left and the side not suppressed.
C1_ExposureWithinCap ==
    /\ pc = "report" =>
        /\ longs + Notional(pending_orders, "YES", "BUY") <= MaxInventory
        /\ shorts + Notional(pending_orders, "NO", "BUY") <= MaxInventory
    /\ pc = "reduce_order_plan" =>
        /\ HasOrder(order_plan, "YES", "BUY") =>
               MaxInventory - longs >= ValueScale /\ ~quote.no_bid
        /\ HasOrder(order_plan, "NO", "BUY") =>
               MaxInventory - shorts >= ValueScale /\ ~quote.no_ask

RECURSIVE BucketSize(_, _, _, _)
\* total size of the orders of a sequence in the bucket (outcome, side, price)
BucketSize(orders, t, sd, pr) ==
    IF orders = <<>> THEN 0
    ELSE (IF Head(orders).type = t /\ Head(orders).side = sd
             /\ Head(orders).price = pr
          THEN Head(orders).size ELSE 0)
         + BucketSize(Tail(orders), t, sd, pr)

Outcomes == {"YES", "NO"}
Sides == {"BUY", "SELL"}
Prices == 0..TicksPerUnit

\* C2: reconciliation is size-conserving: in every bucket the kept pending
\* orders plus the surviving plan order are no larger than the plan order
\* was before reduce_order_plan_size_based_on_pending_orders.
C2_DedupSizeConserving ==
    [][pc = "reduce_order_plan" =>
        \A t \in Outcomes, sd \in Sides, pr \in Prices :
            BucketSize(pending_orders', t, sd, pr)
              + BucketSize(order_plan', t, sd, pr)
            <= BucketSize(order_plan, t, sd, pr)]_vars

\* C2 witness: reconciliation has kept a pending order and left a reduced
\* plan order of the same bucket in the plan.
C2_Witness ==
    /\ pc = "simulate_execute_orders"
    /\ \E i \in 1..Len(pending_orders), j \in 1..Len(order_plan) :
           is_matching(order_plan[j], pending_orders[i])

SameBucket(a, b) == a.type = b.type /\ a.side = b.side /\ a.price = b.price

Range(seq) == {seq[i] : i \in 1..Len(seq)}

RECURSIVE SignedSize(_, _)
\* bought minus sold size over the orders of one outcome
SignedSize(orders, t) ==
    IF orders = <<>> THEN 0
    ELSE (IF Head(orders).type # t THEN 0
          ELSE IF Head(orders).side = "BUY" THEN Head(orders).size
          ELSE 0 - Head(orders).size)
         + SignedSize(Tail(orders), t)

\* bought minus sold notional over the orders of one outcome
SignedNotional(orders, t) ==
    Notional(orders, t, "BUY") - Notional(orders, t, "SELL")

\* the ledger is the ledger before plus the fills of the given orders
LedgerAdvancedBy(orders) ==
    /\ yes_shares' = yes_shares + SignedSize(orders, "YES")
    /\ no_shares' = no_shares + SignedSize(orders, "NO")
    /\ longs' = longs + SignedNotional(orders, "YES")
    /\ shorts' = shorts + SignedNotional(orders, "NO")
    /\ cash' = cash - SignedNotional(orders, "YES") - SignedNotional(orders, "NO")

\* log entry e records a fill of order o in the current cycle
LogsOrder(e, o) ==
    /\ e.type = o.type /\ e.side = o.side
    /\ e.size = o.size /\ e.price = o.price
    /\ e.time = now

\* the log grew by exactly one entry per order of the sequence, in order
LogsAppended(orders) ==
    /\ Len(logs') = Len(logs) + Len(orders)
    /\ SubSeq(logs', 1, Len(logs)) = logs
    /\ \A k \in 1..Len(orders) : LogsOrder(logs'[Len(logs) + k], orders[k])

\* C6: update_pending_orders partitions the pending set: the orders deemed
\* filled are applied to the ledger, logged and removed; the others are kept
\* in order and unchanged and make up pending_longs / pending_shorts; every
\* order is in exactly one group.
C6_UpdatePendingPartitions ==
    [][pc = "update_pending_orders" =>
        LET filled(o) == was_executed(order_book, o)
            resting(o) == ~was_executed(order_book, o)
            gone == SelectSeq(pending_orders, filled)
            kept == SelectSeq(pending_orders, resting)
        IN  /\ pending_orders' = kept
            /\ LedgerAdvancedBy(gone)
            /\ LogsAppended(gone)
            /\ pending_longs' = SignedNotional(kept, "YES")
            /\ pending_shorts' = SignedNotional(kept, "NO")
            /\ Len(pending_orders') + (Len(logs') - Len(logs))
                   = Len(pending_orders)
            /\ \A o \in Range(pending_orders) :
                   (o \in Range(pending_orders')) # (\E k \in (Len(logs) + 1)..Len(logs') :
                                                         LogsOrder(logs'[k], o))
    ]_vars

\* C6 witness: update_pending_orders has just split a pending set into a
\* filled order and a resting order.
C6_Witness ==
    /\ pc = "get_order_plan"
    /\ pending_orders # <<>>
    /\ Len(pending_orders) < Len(old_pending_orders)
    /\ \E o \in Range(old_pending_orders) :
           was_executed(order_book, o) /\ logs # <<>> /\ LogsOrder(logs[Len(logs)], o)

\* C7: in simulate_execute_orders a surviving plan order that is not
\* marketable becomes pending and is not logged, a marketable one is logged
\* in this cycle and is not made pending, and the ledger moves by exactly
\* the marketable orders.
C7_SimulateExecuteSplits ==
    [][pc = "simulate_execute_orders" =>
        LET crosses(o) == order_matches_order_book(o, order_book)
            newlogs == (Len(logs) + 1)..Len(logs')
        IN  /\ \A j \in 1..Len(order_plan) :
                   LET o == order_plan[j]
                   IN  IF crosses(o)
                       THEN /\ \E k \in newlogs : LogsOrder(logs'[k], o)
                            /\ o \notin Range(pending_orders')
                       ELSE /\ o \in Range(pending_orders')
                            /\ ~\E k \in newlogs : LogsOrder(logs'[k], o)
            /\ LedgerAdvancedBy(SelectSeq(order_plan \o pending_orders, crosses))
    ]_vars

\* C7 witness: in the first cycle (every order is a plan order) one plan
\* order was filled at once and another became pending.
C7_Witness ==
    /\ pc = "report"
    /\ now = 0
    /\ \E o \in Range(order_plan) :
           /\ order_matches_order_book(o, order_book)
           /\ \E k \in 1..Len(logs) : LogsOrder(logs[k], o)
    /\ \E o \in Range(order_plan) :
           /\ ~order_matches_order_book(o, order_book)
           /\ o \in Range(pending_orders)
    /\ cash = PortfolioSize * ValueScale - longs - shorts

\* C8 (as claimed): when a resting order matches a plan order and is larger
\* than it, deduplication drops the plan order and keeps the resting order
\* unchanged in the pending set.
C8_LargerRestingOrderKept ==
    [][pc = "reduce_order_plan" =>
        \A p \in Range(pending_orders), o \in Range(order_plan) :
            (SameBucket(o, p) /\ p.size > o.size) =>
                /\ p \in Range(pending_orders')
                /\ ~\E o2 \in Range(order_plan') : SameBucket(o2, p)
    ]_vars

\* C8 (amended): when a resting order matches a plan order and is larger
\* than it, deduplication removes the resting order from the pending set and
\* does not deduct its size: the plan order keeps its size less the kept
\* resting orders of the bucket, and leaves the plan only if that remainder
\* is below min_order_size.
C8_LargerRestingOrderDropped ==
    [][pc = "reduce_order_plan" =>
        \A p \in Range(pending_orders), o \in Range(order_plan) :
            (SameBucket(o, p) /\ p.size > o.size) =>
                LET remainder == o.size - BucketSize(pending_orders', o.type,
                                                     o.side, o.price)
                IN  /\ p \notin Range(pending_orders')
                    /\ remainder >= 0
                    /\ BucketSize(order_plan', o.type, o.side, o.price)
                           = IF remainder >= MinOrderSize THEN remainder ELSE 0
    ]_vars

\* C8 witness: deduplication has dropped a resting order larger than the
\* plan order of its bucket, and the plan order is still in the plan.
C8_Witness ==
    /\ pc = "simulate_execute_orders"
    /\ \E p \in Range(old_pending_orders), o \in Range(order_plan) :
           /\ SameBucket(o, p)
           /\ p.size > o.size + BucketSize(pending_orders, o.type, o.side, o.price)
           /\ p \notin Range(pending_orders)

\* C9 (as claimed): a pending order that was not filled and matches no
\* order of the cycle's plan stays in the pending set.
C9_UnmatchedPendingStays ==
    [][pc = "reduce_order_plan" =>
        \A p \in Range(pending_orders) :
            (~\E o \in Range(order_plan) : SameBucket(o, p)) =>
                p \in Range(pending_orders')
    ]_vars

\* C9 (amended): a pending order that was not filled and matches no order of
\* the cycle's plan is removed from the pending set by deduplication; the
\* orders deduplication keeps are orders that were pending, match a plan
\* order of the cycle and are no larger than it.
C9_UnmatchedPendingDropped ==
    [][pc = "reduce_order_plan" =>
        /\ \A p \in Range(pending_orders) :
               (~\E o \in Range(order_plan) : SameBucket(o, p)) =>
                   p \notin Range(pending_orders')
        /\ \A q \in Range(pending_orders') :
               /\ q \in Range(pending_orders)
               /\ \E o \in Range(order_plan) :
                      SameBucket(o, q) /\ q.size <= o.size
    ]_vars

\* C9 witness: deduplication has removed a resting order whose bucket has
\* no order in the plan of the cycle, while the book had not filled it.
C9_Witness ==
    /\ pc = "simulate_execute_orders"
    /\ \E p \in Range(old_pending_orders) :
           /\ ~was_executed(order_book, p)
           /\ p \notin Range(pending_orders)
           /\ BucketSize(order_plan, p.type, p.side, p.price) = 0
           /\ BucketSize(pending_orders, p.type, p.side, p.price) = 0
           /\ \E o \in Range(order_plan) : o.type = p.type /\ o.side = p.side

\* ------------------------------------------------ claims on the functions
BookBid(book) == IF book.bids = <<>> THEN 0 ELSE book.bids[1].price
BookAsk(book) == IF book.asks = <<>> THEN TicksPerUnit ELSE book.asks[1].price
OtherSide(sd) == IF sd = "BUY" THEN "SELL" ELSE "BUY"
\* the opposite-side YES order at the complementary price
YesMirror(o) == Order("YES", OtherSide(o.side), TicksPerUnit - o.price, o.size)

\* C3: no inverted market: with both sides active get_my_best_bid_ask
\* returns my_bid <= my_ask, for every p in [0,1], r > 0 and book.
C3_NoInvertedMarket ==
    (call.fn = "get_my_best_bid_ask" /\ ~call.quote.no_bid /\ ~call.quote.no_ask)
        => call.quote.my_bid <= call.quote.my_ask

\* C3 witness: both sides active and the quote is as tight as it gets, bid
\* and ask on the same tick.
C3_Witness ==
    /\ call.fn = "get_my_best_bid_ask"
    /\ ~call.quote.no_bid /\ ~call.quote.no_ask
    /\ call.quote.my_bid = call.quote.my_ask
    /\ call.book.bids # <<>> /\ call.book.asks # <<>>

\* C4: was_executed deems an order filled exactly when the book is strictly
\* past its price: YES BUY iff best_bid < price, YES SELL iff best_ask >
\* price, NO BUY iff 1 - best_ask < price, NO SELL iff 1 - best_bid > price
\* (empty bid side 0, empty ask side 1); and a NO order at q fares as the
\* opposite-side YES order at 1 - q.
C4_WasExecutedStrictlyPast ==
    call.fn = "was_executed" =>
        LET o == call.order
            bb == BookBid(call.book)
            ba == BookAsk(call.book)
        IN  /\ (o.type = "YES" /\ o.side = "BUY") => (call.flag <=> bb < o.price)
            /\ (o.type = "YES" /\ o.side = "SELL") => (call.flag <=> ba > o.price)
            /\ (o.type = "NO" /\ o.side = "BUY") =>
                   (call.flag <=> TicksPerUnit - ba < o.price)
            /\ (o.type = "NO" /\ o.side = "SELL") =>
                   (call.flag <=> TicksPerUnit - bb > o.price)
            /\ o.type = "NO" =>
                   (call.flag <=> was_executed(call.book, YesMirror(o)))

\* C4 witness: a NO BUY resting exactly at the NO best bid (1 - best_ask)
\* is reported not filled.
C4_Witness ==
    /\ call.fn = "was_executed"
    /\ call.order.type = "NO" /\ call.order.side = "BUY"
    /\ call.book.asks # <<>>
    /\ call.order.price = TicksPerUnit - BookAsk(call.book)
    /\ ~call.flag

\* C5: order_matches_order_book reports an order marketable exactly when
\* its price matches or beats the opposing best price: YES BUY iff price >=
\* best_ask, YES SELL iff price <= best_bid, NO BUY iff price >= 1 -
\* best_bid, NO SELL iff price <= 1 - best_ask (empty bid side 0, empty ask
\* side 1).
C5_CrossesNowMatchesOrBeats ==
    call.fn = "order_matches_order_book" =>
        LET o == call.order
            bb == BookBid(call.book)
            ba == BookAsk(call.book)
        IN  /\ (o.type = "YES" /\ o.side = "BUY") => (call.flag <=> o.price >= ba)
            /\ (o.type = "YES" /\ o.side = "SELL") => (call.flag <=> o.price <= bb)
            /\ (o.type = "NO" /\ o.side = "BUY") =>
                   (call.flag <=> o.price >= TicksPerUnit - bb)
            /\ (o.type = "NO" /\ o.side = "SELL") =>
                   (call.flag <=> o.price <= TicksPerUnit - ba)

\* C5 witness: a NO SELL priced exactly at the NO best bid (1 - best_ask)
\* is reported marketable.
C5_Witness ==
    /\ call.fn = "order_matches_order_book"
    /\ call.order.type = "NO" /\ call.order.side = "SELL"
    /\ call.book.asks # <<>>
    /\ call.order.price = TicksPerUnit - BookAsk(call.book)
    /\ call.flag

\* C10: update_inventory on an order of size s at price q: a BUY lowers
\* cash by q*s, raises the share count of the order's outcome by s and
\* longs (YES) or shorts (NO) by q*s; a SELL does the inverse; the share
\* count and the notional of the other outcome are unchanged.
C10_ApplyFill ==
    call.fn = "update_inventory" =>
        LET o == call.order
            a == call.led
            b == call.led_out
            sgn == IF o.side = "BUY" THEN 1 ELSE 0 - 1
            v == o.price * o.size
        IN  /\ b.cash = a.cash - sgn * v
            /\ o.type = "YES" =>
                   /\ b.yes_shares = a.yes_shares + sgn * o.size
                   /\ b.longs = a.longs + sgn * v
                   /\ b.no_shares = a.no_shares /\ b.shorts = a.shorts
            /\ o.type = "NO" =>
                   /\ b.no_shares = a.no_shares + sgn * o.size
                   /\ b.shorts = a.shorts + sgn * v
                   /\ b.yes_shares = a.yes_shares /\ b.longs = a.longs

\* C10 witness: a NO SELL at a positive price has been applied to a ledger
\* that holds both outcomes.
C10_Witness ==
    /\ call.fn = "update_inventory"
    /\ call.order.type = "NO" /\ call.order.side = "SELL"
    /\ call.order.price > 0
    /\ call.led.yes_shares > 0 /\ call.led.no_shares > 0
    /\ call.led_out.cash > call.led.cash
    /\ call.led_out.no_shares < call.led.no_shares


\* the log entries a step appends
NewFills == SubSeq(logs', Len(logs) + 1, Len(logs'))

\* the step is the session rollover of run()
IsRollover == pc = "loop" /\ close_timestamp - now <= 0

\* C11: yes_shares, no_shares, cash, longs and shorts move only by the fills
\* a step applies and logs, apart from the share reset at rollover: building
\* the plan and deduplicating it leave all five unchanged, and so does every
\* step that creates, keeps or drops a pending order without logging a fill.
C11_LedgerMovesOnlyOnFill ==
    [][/\ ~IsRollover => LedgerAdvancedBy(NewFills)
       /\ IsRollover => UNCHANGED <<longs, shorts, cash>>
       /\ pc \in {"get_order_plan", "reduce_order_plan"} =>
              UNCHANGED <<yes_shares, no_shares, longs, shorts, cash>>
       /\ (pending_orders' # pending_orders /\ NewFills = <<>>) =>
              UNCHANGED <<yes_shares, no_shares, longs, shorts, cash>>
    ]_vars

\* C11 witness: in a cycle without a fill so far the plan was built and
\* deduplicated, and deduplication kept one resting order and dropped
\* another.
C11_Witness ==
    /\ pc = "simulate_execute_orders"
    /\ order_plan # <<>>
    /\ pending_orders # <<>>
    /\ Len(pending_orders) < Len(old_pending_orders)
    /\ \A k \in 1..Len(logs) : logs[k].time < now

\* C12: the session rollover sets yes_shares and no_shares to 0, leaves
\* cash, longs, shorts, pending_longs and pending_shorts unchanged and adds
\* no log entry; the loop iteration that rolls over goes straight back to the
\* head of the loop, so nothing is fetched, quoted or reconciled in it: the
\* pending orders, the plan and the quote are left alone.
C12_RolloverResetsSharesOnly ==
    [][IsRollover =>
        /\ yes_shares' = 0 /\ no_shares' = 0
        /\ UNCHANGED <<cash, longs, shorts, pending_longs, pending_shorts>>
        /\ logs' = logs
        /\ pc' = "loop"
        /\ UNCHANGED <<pending_orders, order_plan, quote, order_book, p_fair>>
    ]_vars

\* C12 witness: a session in which YES was bought has rolled over: the
\* shares are gone, longs still holds what the logged fills add up to.
C12_Witness ==
    /\ pc = "loop"
    /\ close_timestamp > now
    /\ yes_shares = 0
    /\ SignedSize(logs, "YES") > 0
    /\ longs = SignedNotional(logs, "YES")
    /\ longs > 0

\* C13 (as claimed): every order of the plan get_order_plan returns has a
\* price on the tick lattice inside [tick_size, 1 - tick_size], never 0 or
\* 1, and a size >= 0, the unwind orders planned while no_bid or no_ask is
\* set included.
C13_PlanPricesInsideLattice ==
    pc = "reduce_order_plan" =>
        \A o \in Range(order_plan) :
            /\ o.price \in 1..(TicksPerUnit - 1)
            /\ o.size >= 0

\* the snipe conditions of the cycle, from the fetched book and p_fair
BidIsRich == BookBid(order_book) * SubTicks - RiskThreshold > p_fair
AskIsCheap == BookAsk(order_book) * SubTicks + RiskThreshold < p_fair

\* C14: an unwind-YES SELL is planned only when yes_shares >= min_order_size
\* and is no larger than yes_shares; when the best bid is sniped it is priced
\* at best_bid and sized min(best bid level size, yes_shares).  An unwind-NO
\* SELL is no larger than no_shares; when the best ask is sniped it is priced
\* at 1 - best_ask and is no larger than the best ask level.
C14_UnwindWithinHoldings ==
    pc = "reduce_order_plan" =>
        \A o \in Range(order_plan) :
            /\ (o.type = "YES" /\ o.side = "SELL") =>
                /\ yes_shares >= MinOrderSize
                /\ o.size <= yes_shares
                /\ BidIsRich =>
                    /\ o.price = BookBid(order_book)
                    /\ o.size = IF order_book.bids[1].size <= yes_shares
                                THEN order_book.bids[1].size ELSE yes_shares
            /\ (o.type = "NO" /\ o.side = "SELL") =>
                /\ no_shares >= MinOrderSize
                /\ o.size <= no_shares
                /\ AskIsCheap =>
                    /\ o.price = TicksPerUnit - BookAsk(order_book)
                    /\ o.size <= order_book.asks[1].size

\* C14 witness: more YES is held than the sniped best bid level can absorb,
\* and the unwind SELL is planned at best_bid for the size of that level.
C14_Witness ==
    /\ pc = "reduce_order_plan"
    /\ BidIsRich
    /\ order_book.bids[1].size < yes_shares
    /\ \E o \in Range(order_plan) :
           /\ o.type = "YES" /\ o.side = "SELL"
           /\ o.price = BookBid(order_book)
           /\ o.size = order_book.bids[1].size

\* C15: sniping_bid is true iff best_bid - r > p and sniping_ask is true iff
\* best_ask + r < p; with r > 0 and best_bid < best_ask the two flags are
\* never both true; on a crossed book they can both be true, and the call
\* still delivers its result.
C15_SnipeDetection ==
    call.fn = "get_my_best_bid_ask" =>
        LET bb == BookBid(call.book)
            ba == BookAsk(call.book)
        IN  /\ call.quote.sniping_bid = (bb * SubTicks - call.r > call.p)
            /\ call.quote.sniping_ask = (ba * SubTicks + call.r < call.p)
            /\ (call.r > 0 /\ bb < ba) =>
                   ~(call.quote.sniping_bid /\ call.quote.sniping_ask)

\* C15 witness: on a crossed book the call has returned with both flags true.
C15_Witness ==
    /\ call.fn = "get_my_best_bid_ask"
    /\ BookBid(call.book) > BookAsk(call.book)
    /\ call.quote.sniping_bid
    /\ call.quote.sniping_ask

\* C16: whenever no_bid is false my_bid is at most one tick above the best
\* bid, and whenever no_ask is false my_ask is at least one tick below the
\* best ask, for every p, r and book, an empty side counting as best bid 0
\* or best ask 1.
C16_QuoteWithinOneTickOfBook ==
    call.fn = "get_my_best_bid_ask" =>
        /\ ~call.quote.no_bid =>
               call.quote.my_bid <= BookBid(call.book) + 1
        /\ ~call.quote.no_ask =>
               call.quote.my_ask >= BookAsk(call.book) - 1

\* C16 witness: both sides of the book are empty and both caps bind: the
\* candidates lie strictly inside, the quote is one tick off the sentinels.
C16_Witness ==
    /\ call.fn = "get_my_best_bid_ask"
    /\ call.book = NoBook
    /\ ~call.quote.no_bid /\ ~call.quote.no_ask
    /\ call.p - call.r >= 2 * SubTicks
    /\ call.p + call.r <= (TicksPerUnit - 2) * SubTicks
    /\ call.quote.my_bid = 1
    /\ call.quote.my_ask = TicksPerUnit - 1

\* an exception has ended the loop in the current cycle
CycleFailed ==
    pc \in {"fetch_raised", "order_book_raised", "get_order_plan_raised"}

\* C17 (as claimed): when a cycle fails at any step, yes_shares, no_shares,
\* cash, longs, shorts, the pending orders and the log are what they were at
\* the start of that cycle.
C17_FailedCycleLeavesState ==
    CycleFailed => CycleState = cycle_start

\* C19 (as claimed): a fetch whose retries are exhausted does not end the
\* loop: the cycle is skipped and a later cycle runs; and a book with an
\* empty side does not fail the cycle, which quotes against best_bid = 0 /
\* best_ask = 1.
C19_DataUnavailableNotFatal ==
    /\ pc # "fetch_raised"
    /\ pc = "reduce_order_plan" =>
        /\ order_book.bids = <<>> => quote.best_bid_price = 0
        /\ order_book.asks = <<>> => quote.best_ask_price = TicksPerUnit

\* C20 (as claimed): with a fair probability that is nan or inf the loop
\* does not end in an exception, and the plan of the cycle is empty.
C20_NonFiniteProbabilitySuppressed ==
    p_fair \in NonFiniteProbs =>
        /\ pc # "get_order_plan_raised"
        /\ pc \in {"reduce_order_plan", "simulate_execute_orders", "report"} =>
               order_plan = <<>>

\* C18 (as claimed): fetch_market_data gathers the four fetches at most
\* max_retries times; it has slept initial_delay * backoff_factor^k after
\* failed attempt k and not after the last one; it raises only after
\* max_retries failed attempts; and what it returns is the result of an
\* attempt in which no fetch raised and holds the data of all four fetches,
\* none of them missing.
C18_FetchRetriesOrRaises ==
    /\ fetch.gathers <= fetch.max_retries
    /\ \A k \in 1..Len(fetch.slept) :
           fetch.slept[k] = InitialDelay * Power(BackoffFactor, k - 1)
    /\ fetch.pc = "raised" =>
        /\ fetch.gathers = fetch.max_retries
        /\ Len(fetch.slept) = fetch.max_retries - 1
    /\ fetch.pc = "returned" =>
        /\ Len(fetch.slept) = fetch.gathers - 1
        /\ \A i \in 1..4 : fetch.results[i] # "error"
        /\ \A i \in 1..4 : fetch.results[i] = "data"
\* C21: in execute_orders a plan order whose submission fails makes no
\* pending entry, every submitted order makes exactly one, carrying the
\* returned id and the order's size, price, side and outcome, appended in
\* plan order after the entries already there; orders after a failed one
\* are submitted all the same.
C21_FailedSubmissionNotPending ==
    call.fn = "execute_orders" =>
        LET placed == {i \in 1..Len(call.plan) : call.ids[i] # 0}
            before == Len(call.pending)
            slot(i) == before + Cardinality({j \in placed : j <= i})
        IN  /\ Len(call.pending_out) = before + Cardinality(placed)
            /\ SubSeq(call.pending_out, 1, before) = call.pending
            /\ \A i \in placed :
                   call.pending_out[slot(i)] =
                       [id |-> call.ids[i], size |-> call.plan[i].size,
                        price |-> call.plan[i].price,
                        side |-> call.plan[i].side,
                        type |-> call.plan[i].type]

\* C21 witness: the first submission failed, the second succeeded and is
\* the one new pending entry.
C21_Witness ==
    /\ call.fn = "execute_orders"
    /\ Len(call.plan) = 2
    /\ call.ids[1] = 0 /\ call.ids[2] # 0
    /\ Len(call.pending_out) = Len(call.pending) + 1
    /\ call.pending_out[Len(call.pending_out)].id = call.ids[2]
    /\ call.pending_out[Len(call.pending_out)].price = call.plan[2].price
\* the levels a position is sold into (YES: the bids, NO: the asks) and the
\* price a level pays for the position's outcome
MarkLevels(pos, book) == IF pos.type = "YES" THEN book.bids ELSE book.asks
MarkPrice(pos, lvl) ==
    IF pos.type = "YES" THEN lvl.price ELSE TicksPerUnit - lvl.price

RECURSIVE DepthSize(_)
\* total size of a sequence of levels
DepthSize(levels) ==
    IF levels = <<>> THEN 0 ELSE Head(levels).size + DepthSize(Tail(levels))

\* what level k takes of a position of the given size, the levels before
\* it being served first
Consumed(levels, k, size) ==
    LET left == size - DepthSize(SubSeq(levels, 1, k - 1))
    IN  IF left <= 0 THEN 0
        ELSE IF levels[k].size <= left THEN levels[k].size ELSE left

RECURSIVE SumOver(_, _)
\* sum of f[k] over the set S
SumOver(f, S) ==
    IF S = {} THEN 0
    ELSE LET k == CHOOSE x \in S : TRUE IN f[k] + SumOver(f, S \ {k})

\* C22: get_market_sell_value consumes min(remaining size, level size)
\* level by level at the level's price for the outcome; a position at least
\* as large as the depth gets the sum of price x size over all levels, no
\* position gets more than that or is valued for more shares than it
\* holds, an empty side gives 0, and the engine's state is as it was.
C22_MarkToMarketWalksDepth ==
    call.fn = "get_market_sell_value" =>
        LET levels == MarkLevels(call.order, call.book)
            K == 1..Len(levels)
            taken == [k \in K |-> Consumed(levels, k, call.order.size)]
            paid == [k \in K |-> taken[k] * MarkPrice(call.order, levels[k])]
            full == [k \in K |-> levels[k].size * MarkPrice(call.order, levels[k])]
        IN  /\ call.value = SumOver(paid, K)
            /\ call.order.size >= DepthSize(levels) =>
                   call.value = SumOver(full, K)
            /\ call.value <= SumOver(full, K)
            /\ SumOver(taken, K) <= call.order.size
            /\ levels = <<>> => call.value = 0
            /\ current_ledger = Ledger(0, 0, 0, 0, PortfolioSize * ValueScale)
            /\ pending_orders = <<>> /\ logs = <<>>

\* C22 witness: a NO position larger than a two-level ask side is valued
\* at the proceeds of the whole side.
C22_Witness ==
    /\ call.fn = "get_market_sell_value"
    /\ call.order.type = "NO"
    /\ Len(call.book.asks) = 2
    /\ call.order.size > DepthSize(call.book.asks)
    /\ call.value = call.book.asks[1].size * (TicksPerUnit - call.book.asks[1].price)
                     + call.book.asks[2].size * (TicksPerUnit - call.book.asks[2].price)

\* C23: at the end of every cycle pending_longs is the notional of the
\* pending YES BUY orders minus that of the pending YES SELL orders, and
\* pending_shorts the same over the pending NO orders, of exactly the
\* orders then pending.
C23_PendingNotionalFromPendingSet ==
    pc \in {"report", "loop"} =>
        /\ pending_longs = Notional(pending_orders, "YES", "BUY")
                           - Notional(pending_orders, "YES", "SELL")
        /\ pending_shorts = Notional(pending_orders, "NO", "BUY")
                            - Notional(pending_orders, "NO", "SELL")

\* C23 witness: a later cycle has ended with a YES BUY and a YES SELL
\* pending, after an order had been filled in it.
C23_Witness ==
    /\ pc = "report"
    /\ now >= 1
    /\ HasOrder(pending_orders, "YES", "BUY")
    /\ HasOrder(pending_orders, "YES", "SELL")
    /\ \E k \in 1..Len(logs) : logs[k].time = now
    /\ pending_longs # Notional(pending_orders, "YES", "BUY")

\* C24: the log only grows at its end; a step appends exactly the fills it
\* applies to the ledger, one entry each, and every entry records the best
\* bid, best ask and fair probability of the cycle it is appended in; a step
\* that applies no fill leaves the log as it is, and only
\* update_pending_orders and simulate_execute_orders append.
C24_LogAppendOnlyOnePerFill ==
    [][/\ Len(logs') >= Len(logs)
       /\ SubSeq(logs', 1, Len(logs)) = logs
       /\ \A k \in (Len(logs) + 1)..Len(logs') :
              /\ logs'[k].time = now
              /\ logs'[k].best_bid = BookBid(order_book)
              /\ logs'[k].best_ask = BookAsk(order_book)
              /\ logs'[k].p_fair = p_fair
              /\ \E o \in Range(order_plan) \cup Range(pending_orders) :
                     /\ logs'[k].type = o.type /\ logs'[k].side = o.side
                     /\ logs'[k].size = o.size /\ logs'[k].price = o.price
       /\ ~IsRollover => LedgerAdvancedBy(NewFills)
       /\ pc \notin {"update_pending_orders", "simulate_execute_orders"} =>
              logs' = logs
    ]_vars

\* C24 witness: the log holds an immediate cross of the first cycle and,
\* after it, the fill of a pending order just applied in a later cycle.
C24_Witness ==
    /\ pc = "get_order_plan"
    /\ Len(logs) >= 2
    /\ logs[1].time = 0
    /\ logs[Len(logs)].time = now
    /\ now >= 1
    /\ Len(pending_orders) < Len(old_pending_orders)

\* an order or log entry stands for the same order as o
SameOrder(a, o) ==
    /\ a.type = o.type /\ a.side = o.side
    /\ a.price = o.price /\ a.size = o.size

\* how many elements of a sequence stand for the order o
Copies(seq, o) == Cardinality({i \in 1..Len(seq) : SameOrder(seq[i], o)})

\* C25: no order is applied twice.  In update_pending_orders every pending
\* order is either filled once or kept once; in simulate_execute_orders
\* every order of the plan and of the pending set is either filled once or
\* made pending once, so a filled order is not pending afterwards and cannot
\* be applied again; and what simulate_execute_orders fills in a bucket is
\* no more than the plan held in that bucket before deduplication.
C25_NoDuplicateFills ==
    [][/\ pc = "update_pending_orders" =>
            \A o \in Range(pending_orders) :
                Copies(pending_orders', o) + Copies(NewFills, o)
                    = Copies(pending_orders, o)
       /\ pc = "simulate_execute_orders" =>
            /\ \A o \in Range(order_plan \o pending_orders) :
                   Copies(pending_orders', o) + Copies(NewFills, o)
                       = Copies(order_plan \o pending_orders, o)
            /\ \A t \in Outcomes, sd \in Sides, pr \in Prices :
                   BucketSize(NewFills, t, sd, pr)
                       <= BucketSize(get_order_plan(current_ledger, quote),
                                     t, sd, pr)
       /\ Len(NewFills) + Len(pending_orders')
              <= Len(order_plan) + Len(pending_orders)
    ]_vars

\* C25 witness: in one cycle a pending order was filled by
\* update_pending_orders and a plan order by simulate_execute_orders, and
\* neither is pending afterwards.
C25_Witness ==
    /\ pc = "report"
    /\ now >= 1
    /\ \E k1, k2 \in 1..Len(logs) :
           /\ k1 < k2
           /\ logs[k1].time = now /\ logs[k2].time = now
           /\ \E o \in Range(order_plan) : SameOrder(logs[k2], o)
           /\ ~\E o \in Range(order_plan) : SameOrder(logs[k1], o)
    /\ \A k \in 1..Len(logs) :
           logs[k].time = now => Copies(pending_orders, logs[k]) = 0

\* C26: cash is determined by the notional accumulators: in every reachable
\* state cash + longs + shorts is the initial PORTFOLIO_SIZE.
C26_CashFromNotionals ==
    cash + longs + shorts = PortfolioSize * ValueScale

\* C26 witness: after a session rollover, with BUY and SELL fills in the
\* log, cash has moved away from its initial value.
C26_Witness ==
    /\ close_timestamp > SessionLen
    /\ \E k \in 1..Len(logs) : logs[k].side = "SELL"
    /\ \E k \in 1..Len(logs) : logs[k].side = "BUY"
    /\ cash # PortfolioSize * ValueScale
    /\ longs + shorts # 0

\* C27: the share counts never become negative, also when a session
\* rollover happens while SELL orders are pending.
C27_SharesNonNegative ==
    yes_shares >= 0 /\ no_shares >= 0

\* C28: passive quotes do not cross the book.  On a book with best_bid <
\* best_ask and r > 0, a bid quoted while the best ask is not sniped lies
\* below best_ask, and an ask quoted while the best bid is not sniped lies
\* above best_bid.
C28_PassiveQuotesDoNotCross ==
    (/\ call.fn = "get_my_best_bid_ask"
     /\ call.book.bids # <<>> /\ call.book.asks # <<>>
     /\ BookBid(call.book) < BookAsk(call.book)
     /\ call.r > 0) =>
        /\ (~call.quote.sniping_ask /\ ~call.quote.no_bid) =>
               call.quote.my_bid < BookAsk(call.book)
        /\ (~call.quote.sniping_bid /\ ~call.quote.no_ask) =>
               call.quote.my_ask > BookBid(call.book)

\* C29: a resting order is not deemed filled without book movement.  When
\* the cycle that begins fetches the very book of the cycle before, or a
\* book with no bids and no asks, was_executed reports no pending order
\* filled.
C29_NoFillWithoutBookMovement ==
    [][(/\ pc = "loop" /\ pc' = "update_pending_orders"
        /\ now >= 1
        /\ (order_book' = order_book \/ order_book' = NoBook)) =>
           \A o \in Range(pending_orders) : ~was_executed(order_book', o)
    ]_vars

\* C30: the snipe orders of one cycle take no more than the level offers.
\* When the best bid is sniped, the unwind-YES SELL at best_bid and the
\* open-NO BUY at 1 - best_bid together are no larger than the best bid
\* level; when the best ask is sniped, the unwind-NO SELL at 1 - best_ask
\* and the open-YES BUY at best_ask together are no larger than the best
\* ask level.
C30_SnipeWithinLevel ==
    pc = "reduce_order_plan" =>
        /\ (BidIsRich /\ order_book.bids # <<>>) =>
               BucketSize(order_plan, "YES", "SELL", BookBid(order_book))
               + BucketSize(order_plan, "NO", "BUY",
                            TicksPerUnit - BookBid(order_book))
                   <= order_book.bids[1].size
        /\ (AskIsCheap /\ order_book.asks # <<>>) =>
               BucketSize(order_plan, "NO", "SELL",
                          TicksPerUnit - BookAsk(order_book))
               + BucketSize(order_plan, "YES", "BUY", BookAsk(order_book))
                   <= order_book.asks[1].size
====
